---- MODULE Spec2Model ----
(***************************************************************************)
(* Scripts/ocr/extract_en_text_and_ocr.py: the manifest-driven batch that  *)
(* extracts the text of every PDF of the input directory (embedded text,   *)
(* else OCR), writes one text artifact per PDF and keeps a JSON manifest   *)
(* of the outcomes.                                                        *)
(*                                                                         *)
(* A text is a sequence of one-character strings.  A file is named by its  *)
(* rank among the file names (1 < 2 < 3 stands for a.pdf < b.pdf < c.pdf). *)
(* The process is one thread; pc is its position in the script.  A run     *)
(* ends at "done", at "aborted" (an exception left the script) or at       *)
(* "killed" (the operating system ended the process, possibly in the       *)
(* middle of a file write); Restart is the next run on the same files.     *)
(***************************************************************************)
EXTENDS Integers, Sequences, FiniteSets, TLC

\* ---------------------------------------------------------------- bounds
NFiles == 2
MaxPages == 2
MaxRuns == 2

\* ------------------------------------------------------ program constants
\* len(extracted.split()) > 20
WordThreshold == 20

\* ------------------------------------------------------------------ text
IsSpace(c) == c \in {" ", "\n", "\t"}

RECURSIVE LStrip(_)
LStrip(s) ==
    IF s = <<>> THEN s
    ELSE IF IsSpace(Head(s)) THEN LStrip(Tail(s)) ELSE s

RECURSIVE RStrip(_)
RStrip(s) ==
    IF s = <<>> THEN s
    ELSE IF IsSpace(s[Len(s)]) THEN RStrip(SubSeq(s, 1, Len(s) - 1)) ELSE s

\* str.strip()
Strip(s) == RStrip(LStrip(s))

\* The length of the leading run of non-whitespace characters of s.
RECURSIVE WordLen(_)
WordLen(s) ==
    IF s = <<>> THEN 0
    ELSE IF IsSpace(Head(s)) THEN 0 ELSE 1 + WordLen(Tail(s))

\* str.split(): the maximal runs of non-whitespace characters, in order.
RECURSIVE Split(_)
Split(s) ==
    LET t == LStrip(s)
        n == WordLen(t)
    IN  IF t = <<>> THEN <<>>
        ELSE <<SubSeq(t, 1, n)>> \o Split(SubSeq(t, n + 1, Len(t)))

\* sep.join(xs)
RECURSIVE Join(_, _)
Join(sep, xs) ==
    IF xs = <<>> THEN <<>>
    ELSE IF Len(xs) = 1 THEN xs[1]
    ELSE xs[1] \o sep \o Join(sep, Tail(xs))

BlankLine == <<"\n", "\n">>

\* A page is [text |-> its text layer, image |-> what the OCR engine reads
\* off its rendering]; a document is the sequence of its pages.
get_text(page) == page.text
image_to_string(page) == page.image

\* Lines 37-42: the stripped text of every page, the empty ones left out.
RECURSIVE AllText(_)
AllText(doc) ==
    IF doc = <<>> THEN <<>>
    ELSE LET txt == Strip(get_text(Head(doc)))
         IN  (IF txt # <<>> THEN <<txt>> ELSE <<>>) \o AllText(Tail(doc))

\* Line 44: extracted = "\n\n".join(all_text).strip()
Extracted(doc) == Strip(Join(BlankLine, AllText(doc)))

\* Variants of line 46: an off-by-one threshold, and "any text at all".
EnoughTextOff(text) == Len(Split(text)) >= WordThreshold
EnoughTextAny(text) == Len(Split(text)) > 0

\* Line 46: len(extracted.split()) > 20
EnoughText(text) == Len(Split(text)) > WordThreshold

\* Line 67: full_text = "\n\n".join(ocr_text_pages).strip()
FullText(pages) == Strip(Join(BlankLine, pages))

\* ------------------------------------------------------- sample documents
\* n copies of the word "w", separated by single spaces.
RECURSIVE Words(_)
Words(n) == IF n = 0 THEN <<>>
            ELSE IF n = 1 THEN <<"w">>
            ELSE <<"w", " ">> \o Words(n - 1)

Padded(t) == <<" ">> \o t \o <<"\n">>

HelloText ==
    << "H","e","l","l","o"," ","w","o","r","l","d"," ","t","h","i","s"," ",
       "i","s"," ","a"," ","t","e","s","t"," ","w","i","t","h"," ",
       "e","n","o","u","g","h"," ","w","o","r","d","s"," ","t","o"," ",
       "p","a","s","s"," ","t","w","e","n","t","y"," ","o","n","e","," >>

ScanText == <<" ", "o", "c", "r", "\n">>

\* What a page's text layer may hold.
PageTexts ==
    { <<>>, <<" ", "\n">>, Padded(Words(10)), Padded(Words(11)),
      Padded(Words(21)), HelloText }

\* A page whose rendering shows its text layer, or ScanText when the layer
\* is blank.
PageOf(t) == [text |-> t, image |-> IF Strip(t) = <<>> THEN ScanText ELSE t]

\* A scanned page, and a scanned page the OCR engine reads nothing off.
ScanPage == PageOf(<<>>)
EmptyPage == [text |-> <<>>, image |-> <<>>]

Pages == {PageOf(t) : t \in PageTexts} \cup {EmptyPage}

RECURSIVE SeqsUpTo(_, _)
SeqsUpTo(S, n) ==
    IF n = 0 THEN {<<>>}
    ELSE LET shorter == SeqsUpTo(S, n - 1)
         IN  shorter \cup {Append(s, x) : s \in shorter, x \in S}

\* Documents of 1 .. MaxPages pages.
TextDocs == SeqsUpTo(Pages, MaxPages) \ {<<>>}

\* The documents of a batch: a digital one of one page and a scanned one
\* of MaxPages pages.
DigitalDoc == <<PageOf(Padded(Words(21)))>>
ScannedDoc == [p \in 1 .. MaxPages |-> ScanPage]
BatchDocs == {DigitalDoc, ScannedDoc}

\* Input directories of NFiles files: the documents a and b in turn.
BatchDirs ==
    {[f \in 1 .. NFiles |-> IF f % 2 = 1 THEN a ELSE b] :
        a \in BatchDocs, b \in BatchDocs}

\* Input directories of one file, any document.
TextDirs == {[f \in 1 .. 1 |-> d] : d \in TextDocs}

\* ------------------------------------------------------ manifest records
\* Lines 49-54 and 70-75.
ProcessedRecord(f, method) ==
    [pdf |-> f, text_path |-> f, method |-> method, status |-> "processed"]

\* Lines 79-83.
ErrorRecord(f, e) == [pdf |-> f, error |-> e, status |-> "error"]

\* dict.get("status")
GetStatus(rec) == IF "status" \in DOMAIN rec THEN rec.status ELSE "None"

\* The manifest is a dict: a sequence of <<key, record>> pairs in insertion
\* order, each key once.
KeysOf(m) == {m[i][1] : i \in DOMAIN m}
Has(m, k) == k \in KeysOf(m)
Get(m, k) == m[CHOOSE i \in DOMAIN m : m[i][1] = k][2]

\* A variant of the assignment that merges into the record already there,
\* as manifest[key].update(rec) would.
PutOff(m, k, rec) ==
    IF Has(m, k)
    THEN LET was == Get(m, k)
             merged == [name \in DOMAIN was \cup DOMAIN rec |->
                           IF name \in DOMAIN rec THEN rec[name]
                           ELSE was[name]]
         IN  [i \in DOMAIN m |-> IF m[i][1] = k THEN <<k, merged>> ELSE m[i]]
    ELSE Append(m, <<k, rec>>)

\* manifest[key] = rec
Put(m, k, rec) ==
    IF Has(m, k)
    THEN [i \in DOMAIN m |-> IF m[i][1] = k THEN <<k, rec>> ELSE m[i]]
    ELSE Append(m, <<k, rec>>)

StatusOf(m, k) == IF Has(m, k) THEN GetStatus(Get(m, k)) ELSE "absent"

\* Variants of line 31: any record skips, and a status no record has.
IsProcessedAny(m, k) == Has(m, k)
IsProcessedOff(m, k) == Has(m, k) /\ GetStatus(Get(m, k)) = "done"

\* Line 31: key in manifest and manifest[key].get("status") == "processed"
IsProcessed(m, k) == Has(m, k) /\ GetStatus(Get(m, k)) = "processed"

\* ---------------------------------------------------------------- JSON
FieldOrder == <<"pdf", "text_path", "method", "error", "status">>

\* A variant of json.dumps that loses the status member.
DumpRecordOff(rec) ==
    LET kept == <<"pdf", "text_path", "method", "error">>
    IN  SelectSeq([i \in DOMAIN kept |->
                      IF kept[i] \in DOMAIN rec
                      THEN <<kept[i], rec[kept[i]]>> ELSE <<>>],
                  LAMBDA p : p # <<>>)

\* json.dumps of one record: its members, in the order the script builds them.
DumpRecord(rec) ==
    LET members == [i \in DOMAIN FieldOrder |->
                       IF FieldOrder[i] \in DOMAIN rec
                       THEN <<FieldOrder[i], rec[FieldOrder[i]]>>
                       ELSE <<>>]
    IN  SelectSeq(members, LAMBDA p : p # <<>>)

\* json.dumps(manifest, indent=2): one member per key, in dict order.
Dumps(m) == [i \in DOMAIN m |-> <<m[i][1], DumpRecord(m[i][2])>>]

LoadRecord(members) ==
    [name \in {members[i][1] : i \in DOMAIN members} |->
        members[CHOOSE i \in DOMAIN members : members[i][1] = name][2]]

\* json.loads(META.read_text())
Loads(text) == [i \in DOMAIN text |-> <<text[i][1], LoadRecord(text[i][2])>>]

\* The manifest file: absent, unparseable, or the text of a JSON object.
AbsentFile == [kind |-> "absent", text |-> <<>>]
MalformedFile == [kind |-> "malformed", text |-> <<>>]
JsonFile(text) == [kind |-> "json", text |-> text]

\* An output artifact: no file, a file cut short by a failed write, or a
\* whole file.
NoFile == [exists |-> FALSE, whole |-> FALSE, text |-> <<>>]
PartialFile == [exists |-> TRUE, whole |-> FALSE, text |-> <<>>]
WholeFile(text) == [exists |-> TRUE, whole |-> TRUE, text |-> text]

\* ----------------------------------------------------------------- state
VARIABLES
    pdfs,            \* IN_DIR: file -> its document
    metaFile,        \* META, the manifest file
    outFiles,        \* OUT_DIR: file -> its text artifact
    manifest,        \* the module-level dict
    pc,              \* the position in the script
    queue,           \* sorted(IN_DIR.glob("*.pdf"))
    idx,             \* the position of the for loop in queue
    extracted,       \* process_pdf's local
    ocr_text_pages,  \* process_pdf's local
    exc,             \* str(e) of the exception being handled
    run,             \* the number of this run of the script
    \* history of the current run, read by the properties only
    loaded,          \* the manifest as loaded at startup
    skipped,         \* files process_pdf returned for at line 33
    started,         \* files that passed line 31
    threw,           \* files whose try block raised
    artFailed,       \* files whose artifact write raised
    written,         \* files whose artifact write returned
    abortCause,      \* what ended the run early, if anything
    prevNormal,      \* the previous run reached the end of the script
    prevClean,       \* ... and left every file of the directory processed
    attempts,        \* the files process_pdf was called for, in call order
    ocrCalls         \* the pages of this file line 64 was called for

vars == <<pdfs, metaFile, outFiles, manifest, pc, queue, idx, extracted,
          ocr_text_pages, exc, run, loaded, skipped, started, threw,
          artFailed, written, abortCause, prevNormal, prevClean, attempts,
          ocrCalls>>

disk == <<pdfs, metaFile, outFiles>>
locals == <<extracted, ocr_text_pages, exc, ocrCalls>>
history == <<loaded, skipped, started, threw, artFailed, written,
             abortCause, prevNormal, prevClean, attempts>>

\* The PDFs of the input directory, by the rank of their names.
Files == DOMAIN pdfs

\* The file process_pdf is working on.
key == queue[idx]

InitWith(dirs, meta) ==
    /\ pdfs \in dirs
    /\ metaFile = meta
    /\ outFiles = [f \in DOMAIN pdfs |-> NoFile]
    /\ manifest = <<>>
    /\ pc = "start"
    /\ queue = <<>>
    /\ idx = 1
    /\ extracted = <<>>
    /\ ocr_text_pages = <<>>
    /\ exc = ""
    /\ run = 1
    /\ loaded = <<>>
    /\ skipped = {}
    /\ started = {}
    /\ threw = {}
    /\ artFailed = {}
    /\ written = {}
    /\ abortCause = ""
    /\ prevNormal = FALSE
    /\ prevClean = FALSE
    /\ attempts = <<>>
    /\ ocrCalls = <<>>

\* A batch of NFiles files.
Init == InitWith(BatchDirs, AbsentFile)

\* One file, any document of TextDocs.
InitText == InitWith(TextDirs, AbsentFile)

\* A batch of NFiles files, with the manifest file of earlier runs on a
\* directory that held two more PDFs, since removed: one had been
\* processed, the other had raised.
GoneKeys == {NFiles + 1, NFiles + 2}
StaleManifest ==
    << <<NFiles + 1, ProcessedRecord(NFiles + 1, "tesseract")>>,
       <<NFiles + 2, ErrorRecord(NFiles + 2, "open")>> >>
InitStale == InitWith(BatchDirs, JsonFile(Dumps(StaleManifest)))

\* ---------------------------------------------------------------- script
\* A variant that keeps glob's order.
sortedOff(s) == s

\* sorted(...)
sorted(s) == SortSeq(s, LAMBDA a, b : a < b)

\* The memory of a process that has not started.
NoProcess ==
    /\ manifest' = <<>>
    /\ queue' = <<>>
    /\ idx' = 1
    /\ extracted' = <<>>
    /\ ocr_text_pages' = <<>>
    /\ ocrCalls' = <<>>
    /\ exc' = ""
    /\ loaded' = <<>>
    /\ skipped' = {}
    /\ started' = {}
    /\ threw' = {}
    /\ artFailed' = {}
    /\ written' = {}
    /\ attempts' = <<>>

\* An exception nothing catches ends the process.
Abort(cause) ==
    /\ pc' = "aborted"
    /\ abortCause' = cause
    /\ NoProcess
    /\ UNCHANGED <<run, prevNormal, prevClean>>

\* A variant of lines 23-27 that starts from an empty manifest when the
\* file is no JSON.
LoadManifestOff ==
    /\ pc = "start"
    /\ \/ /\ manifest' = IF metaFile.kind = "json" THEN Loads(metaFile.text)
                          ELSE <<>>
          /\ loaded' = manifest'
          /\ pc' = "list"
          /\ UNCHANGED <<queue, idx, locals, run, skipped, started, threw,
                         artFailed, written, abortCause, prevNormal, prevClean,
                         attempts>>
       \/ Abort("out_dir")
    /\ UNCHANGED disk

\* Lines 23-27: OUT_DIR.mkdir, which may raise; manifest = {}; load META if
\* it exists, which raises on text that is no JSON.
LoadManifest ==
    /\ pc = "start"
    /\ \/ /\ metaFile.kind # "malformed"
          /\ manifest' = IF metaFile.kind = "absent" THEN <<>>
                          ELSE Loads(metaFile.text)
          /\ loaded' = manifest'
          /\ pc' = "list"
          /\ UNCHANGED <<queue, idx, locals, run, skipped, started, threw,
                         artFailed, written, abortCause, prevNormal, prevClean,
                         attempts>>
       \/ /\ metaFile.kind = "malformed"
          /\ Abort("manifest_load")
       \/ Abort("out_dir")
    /\ UNCHANGED disk

\* Line 88: sorted(IN_DIR.glob("*.pdf")); glob's order is the file system's.
ListFiles ==
    /\ pc = "list"
    /\ \E globbed \in {s \in [1 .. Cardinality(Files) -> Files] :
                          {s[i] : i \in DOMAIN s} = Files} :
          queue' = sorted(globbed)
    /\ idx' = 1
    /\ pc' = "loop"
    /\ UNCHANGED <<disk, manifest, locals, run, history>>

\* Lines 88-89: the next file, or the end of the loop.
LoopNext ==
    /\ pc = "loop"
    /\ pc' = IF idx <= Len(queue) THEN "check" ELSE "final"
    /\ attempts' = IF idx <= Len(queue) THEN Append(attempts, key)
                   ELSE attempts
    /\ UNCHANGED <<disk, manifest, queue, idx, locals, run, loaded, skipped,
                   started, threw, artFailed, written, abortCause, prevNormal,
                   prevClean>>

\* process_pdf returns: its locals die, the loop moves on.
Return ==
    /\ pc' = "loop"
    /\ idx' = idx + 1
    /\ extracted' = <<>>
    /\ ocr_text_pages' = <<>>
    /\ ocrCalls' = <<>>
    /\ exc' = ""
    /\ UNCHANGED <<queue, run>>

\* An exception inside the try block: control goes to line 77.
Raise(e) ==
    /\ exc' = e
    /\ threw' = threw \cup {key}
    /\ pc' = "except"
    /\ UNCHANGED <<manifest, queue, idx, run>>

\* Lines 30-33.
SkipCheck ==
    /\ pc = "check"
    /\ IF IsProcessed(manifest, key)
       THEN /\ Return
            /\ skipped' = skipped \cup {key}
            /\ UNCHANGED started
       ELSE /\ pc' = "extract"
            /\ started' = started \cup {key}
            /\ UNCHANGED <<queue, idx, locals, run, skipped>>
    /\ UNCHANGED <<disk, manifest, loaded, threw, artFailed, written,
                   abortCause, prevNormal, prevClean, attempts>>

\* Lines 36-46: open, read every page's text layer, decide.
ExtractOk ==
    /\ pc = "extract"
    /\ extracted' = Extracted(pdfs[key])
    /\ pc' = IF EnoughText(extracted') THEN "write_digital" ELSE "ocr"
    /\ UNCHANGED <<disk, manifest, queue, idx, ocr_text_pages, exc, run, ocrCalls,
                   history>>

ExtractRaises ==
    /\ pc = "extract"
    /\ Raise("open")
    /\ UNCHANGED <<disk, extracted, ocr_text_pages, ocrCalls, loaded, skipped, started,
                   artFailed, written, abortCause, prevNormal, prevClean,
                   attempts>>

\* out_txt.write_text(text): the whole file, or an exception that leaves
\* the file as it was or cut short.
WriteArtifactOk(text) ==
    /\ outFiles' = [outFiles EXCEPT ![key] = WholeFile(text)]
    /\ written' = written \cup {key}
    /\ UNCHANGED <<pdfs, metaFile, manifest, queue, idx, locals, run, loaded,
                   skipped, started, threw, artFailed, abortCause,
                   prevNormal, prevClean, attempts>>

\* A variant in which a failed artifact write is swallowed.
WriteArtifactRaisesOff ==
    /\ \E after \in {outFiles[key], PartialFile} :
          outFiles' = [outFiles EXCEPT ![key] = after]
    /\ pc' = IF pc = "write_digital" THEN "record_digital" ELSE "record_ocr"
    /\ artFailed' = artFailed \cup {key}
    /\ UNCHANGED <<pdfs, metaFile, manifest, queue, idx, locals, run, loaded,
                   skipped, started, threw, written, abortCause, prevNormal,
                   prevClean, attempts>>

WriteArtifactRaises ==
    /\ \E after \in {outFiles[key], PartialFile} :
          outFiles' = [outFiles EXCEPT ![key] = after]
    /\ Raise("write")
    /\ artFailed' = artFailed \cup {key}
    /\ UNCHANGED <<pdfs, metaFile, extracted, ocr_text_pages, ocrCalls, loaded, skipped,
                   started, written, abortCause, prevNormal, prevClean,
                   attempts>>

\* Lines 47-48.
WriteDigital ==
    /\ pc = "write_digital"
    /\ \/ WriteArtifactOk(extracted) /\ pc' = "record_digital"
       \/ WriteArtifactRaises

\* A variant of lines 49-56 without the return: control falls through to
\* the OCR loop.
RecordDigitalOff ==
    /\ pc = "record_digital"
    /\ manifest' = Put(manifest, key, ProcessedRecord(key, "pymupdf"))
    /\ pc' = "ocr"
    /\ UNCHANGED <<disk, queue, idx, locals, run, loaded, skipped, started,
                   threw, artFailed, written, abortCause, prevNormal,
                   prevClean, attempts>>

\* Lines 49-56: the record, then return.
RecordDigital ==
    /\ pc = "record_digital"
    /\ manifest' = Put(manifest, key, ProcessedRecord(key, "pymupdf"))
    /\ Return
    /\ UNCHANGED <<disk, loaded, skipped, started, threw, artFailed, written,
                   abortCause, prevNormal, prevClean, attempts>>

\* A variant of lines 61-65 that decides page by page: a page that has a
\* text layer is not recognised, its text layer is taken.
OcrPageOkOff ==
    /\ pc = "ocr"
    /\ LET n == Len(ocr_text_pages) + 1
           page == pdfs[key][n]
           hasText == Strip(get_text(page)) # <<>>
       IN  /\ ocr_text_pages' =
                 Append(ocr_text_pages, IF hasText THEN get_text(page)
                                        ELSE image_to_string(page))
           /\ ocrCalls' = IF hasText THEN ocrCalls ELSE Append(ocrCalls, n)
    /\ pc' = IF Len(ocr_text_pages') = Len(pdfs[key]) THEN "write_ocr"
             ELSE "ocr"
    /\ UNCHANGED <<disk, manifest, queue, idx, extracted, exc, run, history>>

\* Lines 61-65, one page: render, decode, recognise.
OcrPageOk ==
    /\ pc = "ocr"
    /\ LET n == Len(ocr_text_pages) + 1
           page == pdfs[key][n]
       IN  /\ ocr_text_pages' = Append(ocr_text_pages, image_to_string(page))
           /\ ocrCalls' = Append(ocrCalls, n)
    /\ pc' = IF Len(ocr_text_pages') = Len(pdfs[key]) THEN "write_ocr"
             ELSE "ocr"
    /\ UNCHANGED <<disk, manifest, queue, idx, extracted, exc, run, history>>

OcrPageRaises ==
    /\ pc = "ocr"
    /\ Raise("ocr")
    /\ UNCHANGED <<disk, extracted, ocr_text_pages, ocrCalls, loaded, skipped, started,
                   artFailed, written, abortCause, prevNormal, prevClean,
                   attempts>>

\* Lines 67-69.
WriteOcr ==
    /\ pc = "write_ocr"
    /\ \/ WriteArtifactOk(FullText(ocr_text_pages)) /\ pc' = "record_ocr"
       \/ WriteArtifactRaises

\* Lines 70-75.
RecordOcr ==
    /\ pc = "record_ocr"
    /\ manifest' = Put(manifest, key, ProcessedRecord(key, "tesseract"))
    /\ pc' = "flush"
    /\ UNCHANGED <<disk, queue, idx, locals, run, loaded, skipped, started,
                   threw, artFailed, written, abortCause, prevNormal,
                   prevClean, attempts>>

\* A variant of lines 77-83 that lets the exception through.
ExceptOff ==
    /\ pc = "except"
    /\ Abort("exception")
    /\ UNCHANGED disk

\* Lines 77-83.
Except ==
    /\ pc = "except"
    /\ manifest' = Put(manifest, key, ErrorRecord(key, exc))
    /\ pc' = "flush"
    /\ UNCHANGED <<disk, queue, idx, locals, run, history>>

\* A variant of the flush that writes the records of the PDFs of the
\* directory only.
WriteManifestOkOff ==
    /\ metaFile' = JsonFile(Dumps(SelectSeq(manifest,
                                            LAMBDA e : e[1] \in Files)))
    /\ UNCHANGED <<pdfs, outFiles, manifest, history>>

\* META.write_text(json.dumps(manifest, indent=2)) returns.
WriteManifestOk ==
    /\ metaFile' = JsonFile(Dumps(manifest))
    /\ UNCHANGED <<pdfs, outFiles, manifest, history>>

\* A variant in which a failed manifest write is swallowed.
WriteManifestRaisesOff ==
    /\ metaFile' \in {metaFile, MalformedFile}
    /\ abortCause' = "manifest_write"
    /\ Return
    /\ UNCHANGED <<pdfs, outFiles, manifest, loaded, skipped, started, threw,
                   artFailed, written, prevNormal, prevClean, attempts>>

\* META.parent.mkdir or META.write_text raises: nothing catches it.  The
\* file is as it was, or cut short.
WriteManifestRaises ==
    /\ metaFile' \in {metaFile, MalformedFile}
    /\ Abort("manifest_write")
    /\ UNCHANGED <<pdfs, outFiles>>

\* Lines 85-86, then process_pdf returns.
Flush ==
    /\ pc = "flush"
    /\ \/ WriteManifestOk /\ Return
       \/ WriteManifestRaises

\* A variant of the end of the script without lines 92-93.
FinalFlushOff ==
    /\ pc = "final"
    /\ pc' = "done"
    /\ UNCHANGED <<disk, manifest, queue, idx, locals, run, history>>

\* Lines 92-93, then the end of the script.
FinalFlush ==
    /\ pc = "final"
    /\ \/ /\ WriteManifestOk
          /\ pc' = "done"
          /\ UNCHANGED <<queue, idx, locals, run>>
       \/ WriteManifestRaises

Running == pc \notin {"done", "aborted", "killed"}

\* The operating system ends the process: its memory is gone, the files
\* stay, and a file it was writing may be cut short.
Kill ==
    /\ Running
    /\ pc' = "killed"
    /\ NoProcess
    /\ metaFile' \in IF pc \in {"flush", "final"}
                     THEN {metaFile, MalformedFile} ELSE {metaFile}
    /\ outFiles' \in IF pc \in {"write_digital", "write_ocr"}
                     THEN {outFiles, [outFiles EXCEPT ![key] = PartialFile]}
                     ELSE {outFiles}
    /\ UNCHANGED <<pdfs, run, abortCause, prevNormal, prevClean>>

\* The script is run again on the same directory.
Restart ==
    /\ ~Running
    /\ run < MaxRuns
    /\ run' = run + 1
    /\ prevNormal' = (pc = "done")
    /\ prevClean' = (pc = "done" /\ \A f \in Files :
                         StatusOf(manifest, f) = "processed")
    /\ pc' = "start"
    /\ abortCause' = ""
    /\ NoProcess
    /\ UNCHANGED <<disk>>

Next ==
    \/ LoadManifest
    \/ ListFiles
    \/ LoopNext
    \/ SkipCheck
    \/ ExtractOk
    \/ ExtractRaises
    \/ WriteDigital
    \/ RecordDigital
    \/ OcrPageOk
    \/ OcrPageRaises
    \/ WriteOcr
    \/ RecordOcr
    \/ Except
    \/ Flush
    \/ FinalFlush
    \/ Kill
    \/ Restart

Spec == Init /\ [][Next]_vars

SpecText == InitText /\ [][Next]_vars

SpecStale == InitStale /\ [][Next]_vars

\* ------------------------------------------------------------ properties
\* The manifest file as a dict (empty when there is none to read).
DiskManifest ==
    IF metaFile.kind = "json" THEN Loads(metaFile.text) ELSE <<>>

\* The files process_pdf has returned for in this run.
Returned == {queue[i] : i \in 1 .. (idx - 1)} \cap DOMAIN pdfs

\* process_pdf has just returned for file f.
JustReturned(f) == pc = "loop" /\ idx > 1 /\ queue[idx - 1] = f

\* C1: when process_pdf returns for a file it did not skip, the manifest file
\* holds the in-memory manifest, that file's record included.
C1_FlushedOnReturn ==
    \A f \in started :
        JustReturned(f) =>
            /\ metaFile = JsonFile(Dumps(manifest))
            /\ Has(DiskManifest, f)

\* C2: at most one file whose attempt has started in this run has no record
\* in the manifest file, and every file whose attempt has completed has its
\* record there.
C2_AtMostOneLost ==
    /\ Cardinality({f \in started : ~Has(DiskManifest, f)}) <= 1
    /\ \A f \in started \cap Returned :
          Has(DiskManifest, f) /\ Get(DiskManifest, f) = Get(manifest, f)

\* C3: the step process_pdf takes for a key whose record is processed returns
\* at once and changes no record, no artifact and not the manifest file; the
\* files recorded processed at startup are never opened, never written and
\* keep their record.
C3_SkipStep ==
    (pc = "check" /\ StatusOf(manifest, key) = "processed" /\ pc' # "killed")
        => /\ pc' = "loop"
           /\ idx' = idx + 1
           /\ manifest' = manifest
           /\ outFiles' = outFiles
           /\ metaFile' = metaFile
           /\ started' = started
           /\ skipped' = skipped \cup {key}

C3_SkippedUntouched ==
    \A f \in Files :
        StatusOf(loaded, f) = "processed" =>
            /\ f \notin started
            /\ f \notin written
            /\ f \notin threw
            /\ Get(manifest, f) = Get(loaded, f)

\* C3: both of the above: a file recorded processed is skipped, with no
\* extraction, no OCR, no artifact write and no record changed.
C3_SkipCorrect == [][C3_SkipStep]_vars /\ []C3_SkippedUntouched

C3_Witness ==
    \E f \in skipped :
        /\ StatusOf(loaded, f) = "processed"
        /\ JustReturned(f)
        /\ outFiles[f].whole

\* The process is past startup and has not ended early.
InRun == pc \notin {"start", "killed", "aborted"}

\* C4, as claimed: a run that follows a run which reached the end of the
\* script attempts no file, writes no artifact and changes no record.
C4_RerunDoesNothing ==
    (prevNormal /\ InRun) =>
        /\ started = {}
        /\ written = {}
        /\ manifest = loaded

\* C4, amended: a run that follows a run which reached the end of the script
\* with every file of the directory recorded processed attempts no file,
\* writes no artifact, changes no record, and its final flush leaves the
\* manifest file with the content it had.
C4_RerunOfCleanRun ==
    (prevClean /\ InRun) =>
        /\ skipped \cup {f \in Files : f \notin Returned} = Files
        /\ started = {}
        /\ written = {}
        /\ artFailed = {}
        /\ manifest = loaded
        /\ \A f \in Files : StatusOf(loaded, f) = "processed"
        /\ metaFile = JsonFile(Dumps(loaded))

C4_Witness ==
    /\ prevClean
    /\ pc = "done"
    /\ skipped = Files
    /\ \E f \in Files : Get(manifest, f).method = "pymupdf"

\* C5: process_pdf skips a file iff its record at startup is processed; a
\* file with an error record or none is attempted, and once its attempt is
\* over its record is the new outcome alone, with no member of the old one.
C5_SkipIffProcessed ==
    /\ \A f \in skipped \cup started :
          (f \in skipped) <=> (StatusOf(loaded, f) = "processed")
    /\ pc = "done" => skipped \cup started = Files
    /\ \A f \in started \cap Returned :
          \/ /\ f \notin threw
             /\ Get(manifest, f) \in
                   {ProcessedRecord(f, m) : m \in {"pymupdf", "tesseract"}}
          \/ /\ f \in threw
             /\ Get(manifest, f) \in
                   {ErrorRecord(f, e) : e \in {"open", "ocr", "write"}}

C5_Witness ==
    /\ pc = "done"
    /\ \E f \in started :
          /\ StatusOf(loaded, f) = "error"
          /\ Get(manifest, f) = ProcessedRecord(f, "tesseract")
          /\ Get(DiskManifest, f) = ProcessedRecord(f, "tesseract")

\* C6: a file whose try block raised ends with an error record, every other
\* file process_pdf has returned for ends with a processed record and a whole
\* artifact, and no exception of a try block ends the run.
C6_ErrorIsolation ==
    /\ \A f \in Returned :
          IF f \in threw
          THEN StatusOf(manifest, f) = "error"
          ELSE /\ StatusOf(manifest, f) = "processed"
               /\ outFiles[f].exists
               /\ outFiles[f].whole
    /\ \A f \in threw : f \in Returned \/ (pc \in {"except", "flush"} /\ f = key)
    /\ abortCause \in {"", "out_dir", "manifest_load", "manifest_write"}

C6_Witness ==
    /\ pc = "done"
    /\ run = 1
    /\ threw = {1}
    /\ StatusOf(DiskManifest, 1) = "error"
    /\ \A f \in Files \ {1} :
          StatusOf(DiskManifest, f) = "processed" /\ outFiles[f].whole

\* A step in which an artifact write, or a manifest write, raises.
ArtifactWriteFails == artFailed' # artFailed /\ artFailed' # {}
ManifestWriteFails == abortCause = "" /\ abortCause' = "manifest_write"

\* C7, as claimed: a failed write of an artifact or of the manifest ends the
\* run.
C7_WriteFailureAborts ==
    [][(ArtifactWriteFails \/ ManifestWriteFails) => pc' = "aborted"]_vars

\* C7, amended: a failed write of the manifest ends the run, with no record
\* of it and no artifact written after it; a failed write of an artifact is
\* caught like any exception of the try block: the file gets an error record
\* and the run goes on.
C7_ManifestWriteFatal ==
    /\ [][ManifestWriteFails => (pc' = "aborted" /\ outFiles' = outFiles)]_vars
    /\ [](abortCause = "manifest_write" => pc = "aborted")
    /\ [](\A f \in artFailed :
            \/ pc = "except" /\ f = key
            \/ Get(manifest, f) = ErrorRecord(f, "write"))

C7_Witness ==
    /\ pc = "aborted"
    /\ abortCause = "manifest_write"
    /\ run = 1
    /\ \E f \in Files : ~Has(DiskManifest, f) /\ outFiles[f] = PartialFile

\* The whitespace-delimited words of a text, counted by where they start.
CountWords(t) ==
    Cardinality({i \in 1 .. Len(t) :
                    ~IsSpace(t[i]) /\ (i = 1 \/ IsSpace(t[i - 1]))})

\* The words of the text layers of a document's pages.
RECURSIVE DocWords(_)
DocWords(doc) ==
    IF doc = <<>> THEN 0
    ELSE CountWords(Head(doc).text) + DocWords(Tail(doc))

\* The files attempted in this run whose attempt is over and did not raise.
Succeeded == (started \cap Returned) \ threw

\* C8: a document takes the digital branch iff the text layers of its pages
\* hold more than 20 words, and the OCR branch iff they hold 20 or fewer; the
\* recorded method is pymupdf in the first case and tesseract in the second.
C8_DecisionThreshold ==
    /\ pc \in {"write_digital", "record_digital"} => DocWords(pdfs[key]) > 20
    /\ pc \in {"ocr", "write_ocr", "record_ocr"} => DocWords(pdfs[key]) <= 20
    /\ \A f \in Succeeded :
          /\ Get(manifest, f).method = "pymupdf" <=> DocWords(pdfs[f]) > 20
          /\ Get(manifest, f).method = "tesseract" <=> DocWords(pdfs[f]) <= 20

C8_Witness ==
    /\ pc = "done"
    /\ 1 \in Succeeded
    /\ Len(pdfs[1]) = 2
    /\ DocWords(pdfs[1]) = 21
    /\ Get(DiskManifest, 1).method = "pymupdf"

HelloDoc == <<PageOf(HelloText)>>

\* C9, as claimed: the single-page document whose text layer is HelloText
\* ends with an artifact holding that text, trimmed, and the method pymupdf.
C9_HelloRoundTrip ==
    \A f \in Succeeded :
        pdfs[f] = HelloDoc =>
            /\ outFiles[f] = WholeFile(Strip(HelloText))
            /\ Get(manifest, f).method = "pymupdf"

\* C9, amended: HelloText has 13 words, so that document goes to OCR: its
\* method is tesseract and its artifact holds the trimmed OCR output of the
\* page.  A single-page document whose text layer has more than 20 words
\* ends with an artifact holding that text, trimmed, and the method pymupdf.
C9_HelloGoesToOcr ==
    \A f \in Succeeded :
        /\ pdfs[f] = HelloDoc =>
              /\ CountWords(HelloText) = 13
              /\ Get(manifest, f).method = "tesseract"
              /\ outFiles[f] = WholeFile(Strip(pdfs[f][1].image))
        /\ (Len(pdfs[f]) = 1 /\ CountWords(pdfs[f][1].text) > 20) =>
              /\ Get(manifest, f).method = "pymupdf"
              /\ outFiles[f] = WholeFile(Strip(pdfs[f][1].text))

C9_Witness ==
    /\ pc = "done"
    /\ pdfs[1] = HelloDoc
    /\ 1 \in Succeeded
    /\ Get(DiskManifest, 1).method = "tesseract"
    /\ outFiles[1].whole

\* C10: a file with a processed record, in memory or in the manifest file,
\* has a whole artifact on disk.
C10_ProcessedHasArtifact ==
    LET onDisk == DiskManifest
        HasArtifact(entry) ==
            (entry[1] \in Files /\ GetStatus(entry[2]) = "processed") =>
                outFiles[entry[1]].exists /\ outFiles[entry[1]].whole
    IN  /\ \A i \in DOMAIN manifest : HasArtifact(manifest[i])
        /\ \A i \in DOMAIN onDisk : HasArtifact(onDisk[i])

C10_Witness ==
    /\ pc = "record_ocr"
    /\ run = 2
    /\ outFiles[key].whole
    /\ StatusOf(manifest, key) = "error"
    /\ \E f \in Files : StatusOf(DiskManifest, f) = "processed"

\* The members a record of each status has.
ProcessedFields == {"pdf", "text_path", "method", "status"}
ErrorFields == {"pdf", "error", "status"}
Methods == {"pymupdf", "tesseract"}

WellShaped(f, rec) ==
    /\ "status" \in DOMAIN rec
    /\ rec.status \in {"processed", "error"}
    /\ rec.status = "processed" =>
          /\ DOMAIN rec = ProcessedFields
          /\ rec.pdf = f
          /\ rec.text_path = f
          /\ rec.method \in Methods
    /\ rec.status = "error" =>
          /\ DOMAIN rec = ErrorFields
          /\ rec.pdf = f

\* C11: every record of the manifest, in memory and in the manifest file,
\* has status "processed" or "error"; a processed record has exactly pdf,
\* text_path, method (pymupdf or tesseract) and status, and no error member;
\* an error record has exactly pdf, error and status, and neither method nor
\* text_path, also when it took the place of an earlier record of its key.
C11_RecordShape ==
    LET onDisk == DiskManifest
    IN  /\ \A i \in DOMAIN manifest : WellShaped(manifest[i][1], manifest[i][2])
        /\ \A i \in DOMAIN onDisk : WellShaped(onDisk[i][1], onDisk[i][2])

\* A processed record has taken the place of an error record loaded at
\* startup, and an error record the place of another error record.
C11_Witness ==
    /\ pc = "done"
    /\ \E f \in Files :
          /\ StatusOf(loaded, f) = "error"
          /\ StatusOf(DiskManifest, f) = "processed"
    /\ \E g \in Files :
          /\ StatusOf(loaded, g) = "error"
          /\ StatusOf(DiskManifest, g) = "error"
          /\ Get(DiskManifest, g).error # Get(loaded, g).error

\* C12: a manifest file that is no JSON is fatal at load.  A run that finds
\* one gets no further than line 27: the step it takes from the start ends
\* the process, opens no PDF, writes no artifact and leaves the manifest
\* file as it is; so no run is ever past the load with such a file on disk.
C12_MalformedStep ==
    (pc = "start" /\ metaFile.kind = "malformed") =>
        /\ pc' \in {"aborted", "killed"}
        /\ abortCause' \in {"manifest_load", "out_dir", ""}
        /\ started' = {}
        /\ attempts' = <<>>
        /\ written' = {}
        /\ UNCHANGED disk

C12_MalformedIsFatal ==
    /\ [][C12_MalformedStep]_vars
    /\ [](metaFile.kind = "malformed" => pc \in {"start", "aborted", "killed"})
    /\ [](abortCause = "manifest_load" =>
             pc = "aborted" /\ metaFile = MalformedFile)

\* A second run has aborted at the load, on the file a cut-short flush of
\* the first run left behind; the first run had written an artifact.
C12_Witness ==
    /\ run = 2
    /\ pc = "aborted"
    /\ abortCause = "manifest_load"
    /\ metaFile = MalformedFile
    /\ \E f \in Files : outFiles[f].whole

\* The text the OCR engine reads off every page of a document, in page
\* order, joined as line 67 joins it.
OcrOfAllPages(doc) ==
    Strip(Join(BlankLine, [p \in 1 .. Len(doc) |-> doc[p].image]))

\* The text layers of the pages that have one, joined as line 44 joins them.
LayersOf(doc) ==
    LET layered == SelectSeq(doc, LAMBDA page : Strip(page.text) # <<>>)
    IN  Strip(Join(BlankLine, [p \in 1 .. Len(layered) |->
                                 Strip(layered[p].text)]))

\* C13: the decision between the text layers and OCR is made once for the
\* whole document.  With more than 20 words in the text layers OCR is called
\* for no page, pages without text included, and the artifact holds the text
\* layers only; with 20 words or fewer OCR is called for every page, in page
\* order, and the artifact holds what OCR read off all of them.
C13_AllOrNothing ==
    /\ pc \in {"write_digital", "record_digital"} =>
          /\ DocWords(pdfs[key]) > 20
          /\ ocrCalls = <<>>
    /\ pc = "ocr" =>
          /\ DocWords(pdfs[key]) <= 20
          /\ Len(ocrCalls) < Len(pdfs[key])
          /\ ocrCalls = [p \in 1 .. Len(ocrCalls) |-> p]
    /\ pc \in {"write_ocr", "record_ocr"} =>
          /\ DocWords(pdfs[key]) <= 20
          /\ ocrCalls = [p \in 1 .. Len(pdfs[key]) |-> p]
    /\ \A f \in Succeeded :
          outFiles[f] = IF DocWords(pdfs[f]) > 20
                        THEN WholeFile(LayersOf(pdfs[f]))
                        ELSE WholeFile(OcrOfAllPages(pdfs[f]))

\* A document of a scanned page and a page of 21 words is about to be
\* recorded as digital: OCR was called for neither page, and the artifact
\* holds the 21 words only.
C13_Witness ==
    /\ pc = "record_digital"
    /\ Len(pdfs[key]) = 2
    /\ pdfs[key][1] = ScanPage
    /\ DocWords(pdfs[key]) = 21
    /\ ocrCalls = <<>>
    /\ outFiles[key] = WholeFile(Words(21))

\* A document of a page of 11 words and a scanned page is about to be
\* recorded as OCRed: OCR was called for both pages.
C13_OcrCase ==
    /\ pc = "record_ocr"
    /\ Len(pdfs[key]) = 2
    /\ pdfs[key][2] = ScanPage
    /\ DocWords(pdfs[key]) = 11
    /\ ocrCalls = <<1, 2>>

\* process_pdf has returned for f, or the handler has recorded its error.
Complete(f) ==
    \/ f \in skipped
    \/ f \in started /\ StatusOf(manifest, f) \in {"processed", "error"}

\* The record of f after a step is new or differs from the one before.
RecordChanged(f) ==
    /\ Has(manifest', f)
    /\ ~Has(manifest, f) \/ Get(manifest', f) # Get(manifest, f)

\* A step of a running process after the load changes the artifact or the
\* record of the file of the latest call of process_pdf only.
C14_OneAtATime ==
    \A f \in Files :
        \/ pc = "start"
        \/ pc' \in {"start", "aborted", "killed"} /\ outFiles'[f] = outFiles[f]
        \/ outFiles'[f] = outFiles[f] /\ ~RecordChanged(f)
        \/ attempts # <<>> /\ f = attempts[Len(attempts)]

\* C14: in a run, process_pdf is called for the files in sorted order, one
\* call per file: the i-th call is for the i-th smallest file name.  When a
\* call begins, every earlier call is over, its artifact written and its
\* record set, and a step changes the artifact or the record of the file of
\* the latest call only.
C14_SortedOneByOne ==
    /\ [](\A i \in DOMAIN attempts :
             Cardinality({g \in Files : g < attempts[i]}) = i - 1)
    /\ [](\A i \in 1 .. Len(attempts) - 1 : Complete(attempts[i]))
    /\ [][C14_OneAtATime]_vars

\* A second run has gone through the whole directory, skipping some files
\* and attempting others.
C14_Witness ==
    /\ pc = "done"
    /\ run = 2
    /\ Len(attempts) = Cardinality(Files)
    /\ skipped # {}
    /\ started # {}

\* The state at the end of the script: the manifest file holds the manifest
\* in memory, every PDF of the directory has a processed or error record in
\* it, and the keys this run added are files it attempted.
NormalEnd ==
    /\ metaFile.kind = "json"
    /\ DiskManifest = manifest
    /\ \A f \in Files : StatusOf(DiskManifest, f) \in {"processed", "error"}
    /\ KeysOf(DiskManifest) \ KeysOf(loaded) \subseteq started
    /\ started \subseteq {attempts[i] : i \in DOMAIN attempts}
    /\ {attempts[i] : i \in DOMAIN attempts} \subseteq Files

\* How far a run has come: the steps of one call of process_pdf are
\* numbered within a stride, one stride per file of the listing.
Stride == MaxPages + 8

WithinCall ==
    CASE pc = "loop" -> 0
      [] pc \in {"check", "final"} -> 1
      [] pc = "extract" -> 2
      [] pc = "write_digital" -> 3
      [] pc = "record_digital" -> 4
      [] pc = "ocr" -> 3 + Len(ocr_text_pages)
      [] pc = "write_ocr" -> 3 + MaxPages
      [] pc = "record_ocr" -> 4 + MaxPages
      [] pc = "except" -> 5 + MaxPages
      [] pc = "flush" -> 6 + MaxPages

Progress ==
    CASE pc = "start" -> 0
      [] pc = "list" -> 1
      [] pc \in {"done", "aborted", "killed"} ->
            2 + (Cardinality(Files) + 1) * Stride
      [] OTHER -> 2 + (idx - 1) * Stride + WithinCall

\* C15: a run ends: every step of a run takes it further along a bounded
\* course, whose end is the end of the script, an abort or a kill.  At the
\* end of the script the final flush has run: the manifest file equals the
\* manifest in memory and holds, for every PDF of the directory, a record
\* with status processed or error, and every key added during the run is a
\* PDF attempted in it.
C15_EndsFlushed ==
    /\ [](pc = "done" => NormalEnd)
    /\ [](Progress <= 2 + (Cardinality(Files) + 1) * Stride)
    /\ [][pc' # "start" => Progress' > Progress]_vars
    /\ [][pc' = "done" => pc = "final"]_vars

\* A first run ended normally with a digitally extracted file, whose record
\* only the final flush wrote, and a file with an error record.
C15_Witness ==
    /\ pc = "done"
    /\ run = 1
    /\ \E f \in Files :
          /\ StatusOf(DiskManifest, f) = "processed"
          /\ Get(DiskManifest, f).method = "pymupdf"
          /\ f = queue[Len(queue)]
    /\ \E g \in Files : StatusOf(DiskManifest, g) = "error"

\* A process has loaded its manifest and is still running or at its end.
Loaded == pc \notin {"start", "aborted", "killed"}

\* process_pdf is at work on f.
InFlight(f) ==
    /\ pc \in {"check", "extract", "write_digital", "record_digital", "ocr",
               "write_ocr", "record_ocr", "except", "flush"}
    /\ f = key

\* After a step, the record f had is still the record of f: in the
\* manifest of the process if it goes on, in the manifest file if not.
Survives(f) ==
    IF Loaded'
    THEN Has(manifest', f) /\ Get(manifest', f) = Get(manifest, f)
    ELSE Has(DiskManifest', f) /\ Get(DiskManifest', f) = Get(manifest, f)

\* A step keeps the processed record of f, when process_pdf is not at work
\* on f and the step does not leave the manifest file cut short.
KeepsProcessed(f) ==
    (StatusOf(manifest, f) = "processed" /\ ~InFlight(f)) =>
        metaFile'.kind = "malformed" \/ Survives(f)

\* C16: once a key has a processed record, loaded at startup or set by a
\* call of process_pdf that has returned, no later step changes or removes
\* that record, for this run or for a later one: it stays in the manifest
\* of the running process and is in the manifest file when the process has
\* ended, so that no later run attempts the file again and turns its
\* status into error.
C16_ProcessedIsFinal == [][\A f \in Files : KeepsProcessed(f)]_vars

\* The same holds of the files that go through OCR, whose record line 86
\* flushes before process_pdf returns.
C16_OcrProcessedIsFinal ==
    [][\A f \in Files : DocWords(pdfs[f]) <= 20 => KeepsProcessed(f)]_vars

\* An OCRed file's processed record has outlived the process that set it.
C16_OcrCase ==
    /\ pc = "killed"
    /\ \E f \in Files :
          /\ DocWords(pdfs[f]) <= 20
          /\ StatusOf(DiskManifest, f) = "processed"

\* The files whose attempt in this run raised while opening, reading,
\* rendering or recognising a page.
ThrewOnPages == threw \ artFailed

\* A step changes an artifact only when it is write_text for the file in
\* hand, called for the first time for that file in this run.
C17_WrittenOnlyByWrite ==
    \A f \in Files :
        outFiles'[f] # outFiles[f] =>
            /\ pc \in {"write_digital", "write_ocr"}
            /\ f = key
            /\ f \notin written \cup artFailed
            /\ f \notin threw

\* write_text is called for a file at most once in a run.
C17_OneWritePerFile ==
    (Loaded' /\ (written' # written \/ artFailed' # artFailed)) =>
        /\ key \notin written \cup artFailed
        /\ written' \cup artFailed' = written \cup artFailed \cup {key}

\* The steps before write_text, and the handler, leave every artifact as
\* it is.
C17_PagesWriteNothing ==
    pc \in {"check", "extract", "ocr", "except"} => outFiles' = outFiles

\* C17: an attempt that raises while opening the document, reading a text
\* layer, rendering or recognising any page has called write_text for no
\* artifact, and no later step of the attempt does: the file ends with an
\* error record and its artifact as it was before the attempt.  write_text
\* is called at most once per file in a run, after the last page.
C17_WholeOrNothing ==
    /\ [][C17_WrittenOnlyByWrite]_vars
    /\ [][C17_OneWritePerFile]_vars
    /\ [][C17_PagesWriteNothing]_vars
    /\ [](written \cap artFailed = {})
    /\ [](\A f \in ThrewOnPages :
             /\ f \notin written
             /\ f \in Returned =>
                   /\ StatusOf(manifest, f) = "error"
                   /\ Get(manifest, f).error \in {"open", "ocr"})
    /\ [](pc = "write_ocr" => Len(ocr_text_pages) = Len(pdfs[key]))

\* OCR has raised on the second page of a file after the first page was
\* recognised: the file has its error record and no artifact, while an
\* earlier file of the run has one.
C17_Witness ==
    /\ pc = "flush"
    /\ exc = "ocr"
    /\ Len(ocr_text_pages) = 1
    /\ StatusOf(manifest, key) = "error"
    /\ outFiles[key] = NoFile
    /\ written # {}

\* A step that leaves a new readable manifest file has written the whole
\* in-memory manifest, and the file has every key it had before.
C18_FlushWritesAll ==
    (metaFile' # metaFile /\ metaFile'.kind = "json") =>
        /\ metaFile' = JsonFile(Dumps(manifest))
        /\ KeysOf(DiskManifest) \subseteq KeysOf(DiskManifest')
        /\ KeysOf(manifest) \subseteq KeysOf(DiskManifest')

\* C18: the keys of the manifest only grow.  Every key of the manifest
\* loaded at startup, the keys of PDFs no longer in the directory included,
\* stays in the in-memory manifest for the whole run and is in the manifest
\* file after every flush and at the end of the run; the records of the
\* PDFs no longer in the directory are written back as they were loaded.
C18_KeysOnlyGrow ==
    /\ [][C18_FlushWritesAll]_vars
    /\ [](Loaded => KeysOf(loaded) \subseteq KeysOf(manifest))
    /\ []((Loaded /\ metaFile.kind = "json") =>
             /\ KeysOf(loaded) \subseteq KeysOf(DiskManifest)
             /\ \A k \in KeysOf(loaded) \ Files :
                   Get(DiskManifest, k) = Get(loaded, k))

\* A run on the directory that lost two PDFs has ended: the manifest file
\* it wrote holds the two keys it loaded and a key for every PDF.
C18_Witness ==
    /\ pc = "done"
    /\ KeysOf(loaded) = GoneKeys
    /\ KeysOf(DiskManifest) = GoneKeys \cup Files
    /\ StatusOf(DiskManifest, NFiles + 2) = "error"
====
